---- MODULE Spec2Model ----
(***************************************************************************)
(* GoldenGate status dispatcher (gg_status.py): main() maps --host and     *)
(* --command to a console script, run_ssh_command embeds that script in an *)
(* ssh command line that subprocess.run hands to the local shell, and the   *)
(* remote account's shell runs what arrives.  Text is modelled character    *)
(* by character (a string is a sequence of one-character strings), so that  *)
(* quoting, escaping and line structure are computed, not assumed.          *)
(***************************************************************************)
EXTENDS Integers, Sequences, FiniteSets, TLC

(* ------------------------------ literals ------------------------------ *)

\* Python's None, kept apart from every text (no text holds this token).
None == <<"<None>">>

\* f"ssh -tt pulseuser@{host} 'sudo su - ggudb -c \"{command}\"'"
SSH_PREFIX ==
    <<"s","s","h"," ","-","t","t"," ","p","u","l","s","e","u","s","e","r","@">>

SSH_SUDO ==
    <<" ","'","s","u","d","o"," ","s","u"," ","-"," ","g","g","u","d","b"," ","-","c",
      " ","\"">>

SSH_SUFFIX ==
    <<"\"","'">>

\* f"echo '{command}' | ggsci"
ECHO_PREFIX ==
    <<"e","c","h","o"," ","'">>

ECHO_SUFFIX ==
    <<"'"," ","|"," ","g","g","s","c","i">>

\* The template of get_lag_info, cut at the {cred} field: the text before the
\* login line, the login command up to the field, the three commands after
\* it, and the rest of the script from the terminator line on.
SCRIPT_HEAD ==
    <<"#","!","/","b","i","n","/","b","a","s","h","\n","#"," ","C","r","e","a","t","e",
      " ","a"," ","t","e","m","p","o","r","a","r","y"," ","f","i","l","e"," ","w","i",
      "t","h"," ","G","G","S","C","I"," ","c","o","m","m","a","n","d","s","\n","c","a",
      "t"," ",">"," ","/","t","m","p","/","g","g","_","c","o","m","m","a","n","d","s",
      ".","t","x","t"," ","<","<"," ","'","E","O","F","'","\n">>

LOGIN_PREFIX ==
    <<"d","b","l","o","g","i","n"," ","u","s","e","r","i","d","a","l","i","a","s"," ">>

SCRIPT_CMDS ==
    <<"\n","l","a","g","\n","i","n","f","o"," ","a","l","l","\n","e","x","i","t","\n">>

SCRIPT_TAIL ==
    <<"E","O","F","\n","\n","#"," ","R","u","n"," ","G","G","S","C","I"," ","w","i","t",
      "h"," ","t","h","e"," ","c","o","m","m","a","n","d","s"," ","f","i","l","e","\n",
      "g","g","s","c","i"," ","<"," ","/","t","m","p","/","g","g","_","c","o","m","m",
      "a","n","d","s",".","t","x","t","\n","r","m"," ","-","f"," ","/","t","m","p","/",
      "g","g","_","c","o","m","m","a","n","d","s",".","t","x","t","\n">>

\* f"Error executing command: {e.stderr}"
ERROR_PREFIX ==
    <<"E","r","r","o","r"," ","e","x","e","c","u","t","i","n","g"," ","c","o","m","m",
      "a","n","d",":"," ">>

CREDSTORE_REQUIRED ==
    <<"E","r","r","o","r",":"," ","-","-","c","r","e","d","s","t","o","r","e"," ","i",
      "s"," ","r","e","q","u","i","r","e","d"," ","f","o","r"," ","l","a","g"," ","c",
      "o","m","m","a","n","d">>

INFO_ALL ==
    <<"i","n","f","o"," ","a","l","l">>

INFO_CREDENTIALSTORE ==
    <<"i","n","f","o"," ","c","r","e","d","e","n","t","i","a","l","s","t","o","r","e">>

GG1_DEFAULT ==
    <<"t","e","s","t","d","b","-","h","o","-","0","3",".","c","o","m">>

GG2_DEFAULT ==
    <<"t","e","s","t","d","b","-","h","o","-","0","6",".","c","o","m">>

(* --------------------------- text operations --------------------------- *)

DQ == "\""
SQ == "'"
BS == "\\"
NL == "\n"
SP == " "

\* s[i..] and the test that t occurs in s at position i.
Drop(s, n) == SubSeq(s, n + 1, Len(s))
Take(s, n) == SubSeq(s, 1, n)
OccursAt(s, t, i) == i >= 1 /\ i + Len(t) - 1 <= Len(s) /\ SubSeq(s, i, i + Len(t) - 1) = t
StartsWith(s, t) == OccursAt(s, t, 1)
EndsWith(s, t) == OccursAt(s, t, Len(s) - Len(t) + 1)
Contains(s, t) == \E i \in 1..(Len(s) + 1) : OccursAt(s, t, i)

\* Long texts are cut in halves, so that the depth of the evaluation grows
\* with the logarithm of the length.

\* s[lo..hi] cut at every occurrence of sep (sep itself is dropped).
RECURSIVE SplitRange(_, _, _, _)
SplitRange(s, sep, lo, hi) ==
    IF lo > hi THEN << <<>> >>
    ELSE IF lo = hi THEN (IF s[lo] = sep THEN << <<>>, <<>> >> ELSE << <<s[lo]>> >>)
    ELSE LET mid == (lo + hi) \div 2
             left == SplitRange(s, sep, lo, mid)
             right == SplitRange(s, sep, mid + 1, hi)
         IN SubSeq(left, 1, Len(left) - 1) \o <<left[Len(left)] \o right[1]>> \o Tail(right)
Split(s, sep) == SplitRange(s, sep, 1, Len(s))

\* str.split("\n"): the lines of a text (a final newline yields a last empty line).
Lines(s) == Split(s, NL)

\* sep.join(parts)
RECURSIVE Join(_, _)
Join(parts, sep) ==
    IF parts = <<>> THEN <<>>
    ELSE IF Len(parts) = 1 THEN parts[1]
    ELSE parts[1] \o sep \o Join(Tail(parts), sep)

\* str.replace(old, new) for a one-character old.
RECURSIVE ReplaceRange(_, _, _, _, _)
ReplaceRange(s, old, new, lo, hi) ==
    IF lo > hi THEN <<>>
    ELSE IF lo = hi THEN (IF s[lo] = old THEN new ELSE <<s[lo]>>)
    ELSE LET mid == (lo + hi) \div 2
         IN ReplaceRange(s, old, new, lo, mid) \o ReplaceRange(s, old, new, mid + 1, hi)
Replace(s, old, new) == ReplaceRange(s, old, new, 1, Len(s))

(* ------------------------------ the shell ------------------------------ *)

\* Word splitting and quote removal as sh does them for one command line.
\* The shell reads the line character by character in one of five modes:
\* plain, inside '...' (everything is kept), inside "..." (everything is
\* kept, but a backslash escapes " and \), and just after a backslash in
\* plain or in "..." text.  It emits the characters of the words, MARK where
\* a word has begun without a character (a quote), and SEP for a blank.
MARK == "<mark>"
SEP == "<sep>"

ShStep(mode, c) ==
    CASE mode = "single" ->
           IF c = SQ THEN [mode |-> "plain", out |-> <<>>]
           ELSE [mode |-> "single", out |-> <<c>>]
      [] mode = "double" ->
           IF c = DQ THEN [mode |-> "plain", out |-> <<>>]
           ELSE IF c = BS THEN [mode |-> "double\\", out |-> <<>>]
           ELSE [mode |-> "double", out |-> <<c>>]
      [] mode = "double\\" ->
           IF c \in {DQ, BS} THEN [mode |-> "double", out |-> <<c>>]
           ELSE IF c = NL THEN [mode |-> "double", out |-> <<>>]
           ELSE [mode |-> "double", out |-> <<BS, c>>]
      [] mode = "plain\\" ->
           IF c = NL THEN [mode |-> "plain", out |-> <<>>]
           ELSE [mode |-> "plain", out |-> <<c>>]
      [] OTHER ->
           IF c = SQ THEN [mode |-> "single", out |-> <<MARK>>]
           ELSE IF c = DQ THEN [mode |-> "double", out |-> <<MARK>>]
           ELSE IF c = BS THEN [mode |-> "plain\\", out |-> <<MARK>>]
           ELSE IF c \in {SP, NL} THEN [mode |-> "plain", out |-> <<SEP>>]
           ELSE [mode |-> "plain", out |-> <<c>>]

\* The line is read left to right: out is built before the mode the right
\* half ends in is asked for, so the left half is always read first.
RECURSIVE ShRange(_, _, _, _)
ShRange(s, mode, lo, hi) ==
    IF lo > hi THEN [mode |-> mode, out |-> <<>>]
    ELSE IF lo = hi THEN ShStep(mode, s[lo])
    ELSE LET mid == (lo + hi) \div 2
             left == ShRange(s, mode, lo, mid)
             right == ShRange(s, left.mode, mid + 1, hi)
         IN [out |-> left.out \o right.out, mode |-> right.mode]

IsWordText(t) == t # MARK
IsWord(group) == group # <<>>
WordText(group) == SelectSeq(group, IsWordText)

\* closed is FALSE when the line ends inside a quotation (sh: "unterminated
\* quoted string"); a backslash that ends the line stands for itself.
ShWords(s) ==
    LET r == ShRange(s, "plain", 1, Len(s))
        out == IF r.mode = "plain\\" THEN r.out \o <<BS>> ELSE r.out
        groups == SelectSeq(Split(out, SEP), IsWord)
    IN [words |-> [k \in 1..Len(groups) |-> WordText(groups[k])],
        closed |-> r.mode \in {"plain", "plain\\"}]

\* Words of the command lines.
TEMP_FILE ==
    <<"/","t","m","p","/","g","g","_","c","o","m","m","a","n","d","s",".","t","x","t">>

W_SSH ==
    <<"s","s","h">>

W_TT ==
    <<"-","t","t">>

W_USER ==
    <<"p","u","l","s","e","u","s","e","r","@">>

W_SUDO ==
    <<"s","u","d","o">>

W_SU ==
    <<"s","u">>

W_DASH ==
    <<"-">>

W_GGUDB ==
    <<"g","g","u","d","b">>

W_C ==
    <<"-","c">>

W_CAT ==
    <<"c","a","t">>

W_GT ==
    <<">">>

W_LT ==
    <<"<">>

W_HERE ==
    <<"<","<">>

W_GGSCI ==
    <<"g","g","s","c","i">>

W_RM ==
    <<"r","m">>

W_F ==
    <<"-","f">>

W_ECHO ==
    <<"e","c","h","o">>

W_PIPE ==
    <<"|">>

W_EXIT ==
    <<"e","x","i","t">>

\* Inputs and outcomes used to exercise the program.
PROD_CRED ==
    <<"P","R","O","D","_","C","R","E","D">>

PADDED_CRED ==
    <<" ","g","g"," ">>

MIXED_CRED ==
    <<"A","b">>

EOF_CRED ==
    <<"A","\n","E","O","F">>

GG1_OVERRIDE ==
    <<"g","g","1",".","l","a","n">>

GG2_OVERRIDE ==
    <<"g","g","2",".","l","a","n">>

AUTH_FAILED ==
    <<"a","u","t","h"," ","f","a","i","l","e","d">>

SOME_OUTPUT ==
    <<"O","K">>

SYNTAX_ERROR ==
    <<"s","h",":"," ","s","y","n","t","a","x"," ","e","r","r","o","r">>

\* A console command with embedded double quotes.
INFO_REPORT_DETAIL ==
    <<"i","n","f","o"," ","a","l","l",","," ","r","e","p","o","r","t"," ","\"","d","e",
      "t","a","i","l","\"">>

(* ------------------------- the command builders ------------------------- *)

\* run_ssh_command: the command line handed to subprocess.run(shell=True).
ssh_command(host, command) == SSH_PREFIX \o host \o SSH_SUDO \o command \o SSH_SUFFIX

\* A builder that forgets the escaping.
escape_nothing(command) == command

\* run_ggsci_command: command.replace('"', '\\"')
escape_quotes(command) == Replace(command, DQ, <<BS, DQ>>)

\* run_ggsci_command: f"echo '{command}' | ggsci"
gg_script(command) == ECHO_PREFIX \o escape_quotes(command) \o ECHO_SUFFIX

\* str.strip() for blanks.
Strip(s) ==
    LET kept == {i \in 1..Len(s) : s[i] # SP} IN
    IF kept = {} THEN <<>>
    ELSE SubSeq(s, CHOOSE i \in kept : \A j \in kept : i <= j,
                   CHOOSE i \in kept : \A j \in kept : j <= i)

\* A template filled with a tidied alias.
temp_script_stripped(credentialstore) ==
    SCRIPT_HEAD \o LOGIN_PREFIX \o Strip(credentialstore) \o SCRIPT_CMDS \o SCRIPT_TAIL

\* A template that leaves the command file behind (no rm line).
RM_LINE ==
    <<"r","m"," ","-","f"," ","/","t","m","p","/","g","g","_","c","o","m","m","a","n",
      "d","s",".","t","x","t","\n">>

temp_script_keep_file(credentialstore) ==
    SCRIPT_HEAD \o LOGIN_PREFIX \o credentialstore \o SCRIPT_CMDS
      \o Take(SCRIPT_TAIL, Len(SCRIPT_TAIL) - Len(RM_LINE))

\* A template whose command file is named after the alias.
TEMP_FILE_STEM ==
    <<"/","t","m","p","/","g","g","_","c","o","m","m","a","n","d","s">>

OwnFile(text, credentialstore) ==
    LET at == CHOOSE i \in 1..Len(text) : OccursAt(text, TEMP_FILE_STEM, i)
    IN Take(text, at + Len(TEMP_FILE_STEM) - 1) \o credentialstore
         \o Drop(text, at + Len(TEMP_FILE_STEM) - 1)

temp_script_own_file(credentialstore) ==
    LET tail == OwnFile(SCRIPT_TAIL, credentialstore)
        n == Len(tail) - Len(RM_LINE) - Len(credentialstore)
    IN OwnFile(SCRIPT_HEAD, credentialstore) \o LOGIN_PREFIX \o credentialstore
         \o SCRIPT_CMDS \o Take(tail, n) \o OwnFile(Drop(tail, n), credentialstore)

\* get_lag_info: the template with {cred} filled in by str.format.
temp_script(credentialstore) ==
    SCRIPT_HEAD \o LOGIN_PREFIX \o credentialstore \o SCRIPT_CMDS \o SCRIPT_TAIL

\* An except branch that returns the bare standard error.
error_result_bare(stderr) == stderr

\* run_ssh_command's except branch: f"Error executing command: {e.stderr}"
error_result(stderr) == ERROR_PREFIX \o stderr

\* A test for None alone.
credstore_is_none(credstore) == credstore = None

\* main: `not args.credstore` (None and the empty string are both false).
credstore_missing(credstore) == credstore = None \/ credstore = <<>>

\* os.getenv(key, default)
getenv(environ, key, default) == IF environ[key] = None THEN default ELSE environ[key]

\* main: the address of the selected host.
resolve_host(host, environ) ==
    IF host = "gg1" THEN getenv(environ, "GG1_HOST", GG1_DEFAULT)
    ELSE getenv(environ, "GG2_HOST", GG2_DEFAULT)

(* -------------------------------- inputs -------------------------------- *)

Hosts == {"gg1", "gg2"}
Commands == {"info", "credstore", "lag"}
Aliases == {PROD_CRED, PADDED_CRED, MIXED_CRED, EOF_CRED}
CredstoreArgs == {None, <<>>} \cup Aliases
Environs == [GG1_HOST : {None, GG1_OVERRIDE}, GG2_HOST : {None, GG2_OVERRIDE}]
Addresses == {GG1_DEFAULT, GG2_DEFAULT, GG1_OVERRIDE, GG2_OVERRIDE}
StdoutTexts == {<<>>, SOME_OUTPUT}
StderrTexts == {<<>>, AUTH_FAILED}
ExitCodes == {0, 1}

\* Console command texts for run_ggsci_command called on its own.
MaxCommandLen == 3
CommandAlphabet == {"a", SP, DQ, SQ, BS}
CommandTexts == UNION {[1..n -> CommandAlphabet] : n \in 0..MaxCommandLen}

(* --------------------------------- state --------------------------------- *)

VARIABLES
    procs,      \* the invocations of the script that are running
    args,       \* args[p]: what argparse returned
    environ,    \* environ[p]: the environment after load_dotenv()
    st,         \* st[p]: the locals of main() and its callees, and the session
    fs          \* fs[a]: the files on the host at address a, as <<name, lines>>

vars == <<procs, args, environ, st, fs>>

Start ==
    [pc |-> "main", hostname |-> <<>>, command |-> <<>>, script |-> <<>>,
     cmdline |-> <<>>, calls |-> 0, starts |-> 0, sessions |-> <<>>,
     rscript |-> <<>>, rstatus |-> 0, console |-> <<>>, returncode |-> 0,
     stdout |-> <<>>, stderr |-> <<>>, result |-> <<>>, printed |-> <<>>]

Init ==
    /\ procs = {1}
    /\ args \in [procs -> [host : Hosts, command : Commands, credstore : CredstoreArgs]]
    /\ environ \in [procs -> Environs]
    /\ st = [p \in procs |-> Start]
    /\ fs = [a \in Addresses |-> {}]

Set(p, r) == st' = [st EXCEPT ![p] = r]
Local(p) == UNCHANGED <<procs, args, environ, fs>>

(* --------------------------------- main() --------------------------------- *)

ResolveHost(p) ==
    /\ st[p].pc = "main"
    /\ Set(p, [st[p] EXCEPT !.hostname = resolve_host(args[p].host, environ[p]),
                            !.pc = "dispatch"])
    /\ Local(p)

get_info_all(p) ==
    /\ st[p].pc = "dispatch" /\ args[p].command = "info"
    /\ Set(p, [st[p] EXCEPT !.command = INFO_ALL, !.pc = "run_ggsci_command"])
    /\ Local(p)

get_info_credentialstore(p) ==
    /\ st[p].pc = "dispatch" /\ args[p].command = "credstore"
    /\ Set(p, [st[p] EXCEPT !.command = INFO_CREDENTIALSTORE, !.pc = "run_ggsci_command"])
    /\ Local(p)

CredstoreRequired(p) ==
    /\ st[p].pc = "dispatch" /\ args[p].command = "lag"
    /\ credstore_missing(args[p].credstore)
    /\ Set(p, [st[p] EXCEPT !.printed = Append(@, CREDSTORE_REQUIRED), !.pc = "done"])
    /\ Local(p)

get_lag_info(p) ==
    /\ st[p].pc = "dispatch" /\ args[p].command = "lag"
    /\ ~credstore_missing(args[p].credstore)
    /\ Set(p, [st[p] EXCEPT !.script = temp_script(args[p].credstore),
                            !.pc = "run_ssh_command"])
    /\ Local(p)

run_ggsci_command(p) ==
    /\ st[p].pc = "run_ggsci_command"
    /\ Set(p, [st[p] EXCEPT !.script = gg_script(st[p].command), !.pc = "run_ssh_command"])
    /\ Local(p)

run_ssh_command(p) ==
    /\ st[p].pc = "run_ssh_command"
    /\ Set(p, [st[p] EXCEPT !.cmdline = ssh_command(st[p].hostname, st[p].script),
                            !.calls = @ + 1, !.pc = "subprocess"])
    /\ Local(p)

(* ---------------------- subprocess.run and the session ---------------------- *)

\* The local shell splits the command line; ssh is started on its words.
SshArgv(p) == ShWords(st[p].cmdline)
SshTarget(argv) == Drop(argv[3], Len(W_USER))
\* ssh sends its remaining arguments, joined by blanks, to the login shell.
RemoteLine(argv) == Join(Drop(argv, 3), <<SP>>)
SudoPrefix == <<W_SUDO, W_SU, W_DASH, W_GGUDB, W_C>>

subprocess_run(p) ==
    /\ st[p].pc = "subprocess"
    /\ LET w == SshArgv(p) IN
         IF w.closed /\ Len(w.words) >= 4 /\ w.words[1] = W_SSH /\ StartsWith(w.words[3], W_USER)
         THEN Set(p, [st[p] EXCEPT !.starts = @ + 1,
                                   !.sessions = Append(@, SshTarget(w.words)),
                                   !.pc = "ssh"])
         ELSE Set(p, [st[p] EXCEPT !.starts = @ + 1, !.returncode = 2,
                                   !.stderr = SYNTAX_ERROR, !.pc = "exited"])
    /\ Local(p)

\* The connection, the login or the privilege escalation fails.
SshFail(p) ==
    /\ st[p].pc = "ssh"
    /\ \E e \in StderrTexts :
         Set(p, [st[p] EXCEPT !.returncode = 255, !.stderr = e, !.pc = "exited"])
    /\ Local(p)

\* The login shell runs `sudo su - ggudb -c <script>`; ggudb's shell gets the script.
SshConnect(p) ==
    /\ st[p].pc = "ssh"
    /\ LET w == ShWords(RemoteLine(SshArgv(p).words)) IN
         IF w.closed /\ Len(w.words) >= 6 /\ Take(w.words, 5) = SudoPrefix
         THEN Set(p, [st[p] EXCEPT !.rscript = Lines(w.words[6]), !.pc = "remote"])
         ELSE Set(p, [st[p] EXCEPT !.returncode = 2, !.stderr = SYNTAX_ERROR,
                                   !.pc = "exited"])
    /\ Local(p)

(* ------------------------- the script on the host ------------------------- *)

Words(line) == ShWords(line).words

LineKind(line) ==
    LET w == Words(line) IN
    CASE w = <<>> \/ Head(line) = "#" -> "skip"
      [] Len(w) = 5 /\ w[1] = W_CAT /\ w[2] = W_GT /\ w[4] = W_HERE -> "heredoc"
      [] Len(w) = 3 /\ w[1] = W_GGSCI /\ w[2] = W_LT -> "console"
      [] Len(w) = 3 /\ w[1] = W_RM /\ w[2] = W_F -> "rm"
      [] Len(w) >= 3 /\ w[1] = W_ECHO /\ w[Len(w) - 1] = W_PIPE /\ w[Len(w)] = W_GGSCI -> "pipe"
      [] w[1] = W_EXIT -> "exit"
      [] OTHER -> "other"

AtLine(p, kind) ==
    st[p].pc = "remote" /\ st[p].rscript # <<>> /\ LineKind(Head(st[p].rscript)) = kind

Host(p) == st[p].hostname
FileNamed(a, name) == {f \in fs[a] : f[1] = name}

\* The index of the first line after the first that equals the delimiter.
HeredocEnd(lines, delimiter) ==
    LET hits == {i \in 2..Len(lines) : lines[i] = delimiter} IN
    IF hits = {} THEN Len(lines) + 1 ELSE CHOOSE i \in hits : \A j \in hits : i <= j

RemoteSkip(p) ==
    /\ AtLine(p, "skip")
    /\ Set(p, [st[p] EXCEPT !.rscript = Tail(@)])
    /\ Local(p)

\* cat > FILE << DELIMITER: the lines up to the delimiter become the file.
RemoteHeredoc(p) ==
    /\ AtLine(p, "heredoc")
    /\ LET lines == st[p].rscript
           w == Words(Head(lines))
           end == HeredocEnd(lines, w[5])
       IN /\ fs' = [fs EXCEPT ![Host(p)] =
                      {f \in @ : f[1] # w[3]} \cup {<<w[3], SubSeq(lines, 2, end - 1)>>}]
          /\ Set(p, [st[p] EXCEPT !.rscript = Drop(lines, end), !.rstatus = 0])
    /\ UNCHANGED <<procs, args, environ>>

\* ggsci < FILE: the console reads the file, if there is one, and exits.
RemoteConsole(p) ==
    /\ AtLine(p, "console")
    /\ LET w == Words(Head(st[p].rscript))
           file == FileNamed(Host(p), w[3])
       IN IF file = {}
          THEN Set(p, [st[p] EXCEPT !.rscript = Tail(@), !.rstatus = 1])
          ELSE \E f \in file : \E code \in ExitCodes :
                 Set(p, [st[p] EXCEPT !.rscript = Tail(@), !.rstatus = code,
                                      !.console = Append(@, [input |-> f[2], code |-> code])])
    /\ Local(p)

\* rm -f FILE
RemoteRm(p) ==
    /\ AtLine(p, "rm")
    /\ LET w == Words(Head(st[p].rscript)) IN
         fs' = [fs EXCEPT ![Host(p)] = {f \in @ : f[1] # w[3]}]
    /\ Set(p, [st[p] EXCEPT !.rscript = Tail(@), !.rstatus = 0])
    /\ UNCHANGED <<procs, args, environ>>

\* echo WORDS | ggsci: the console reads one line and exits.
RemotePipe(p) ==
    /\ AtLine(p, "pipe")
    /\ LET w == Words(Head(st[p].rscript)) IN
         \E code \in ExitCodes :
           Set(p, [st[p] EXCEPT !.rscript = Tail(@), !.rstatus = code,
                     !.console = Append(@, [input |-> <<Join(SubSeq(w, 2, Len(w) - 2), <<SP>>)>>,
                                            code |-> code])])
    /\ Local(p)

\* exit: the shell stops with the status of the last command.
RemoteExit(p) ==
    /\ AtLine(p, "exit")
    /\ Set(p, [st[p] EXCEPT !.rscript = <<>>])
    /\ Local(p)

\* Any other line is run as a program of the host, whatever it does there.
RemoteOther(p) ==
    /\ AtLine(p, "other")
    /\ \E code \in {0, 127} :
         Set(p, [st[p] EXCEPT !.rscript = Tail(@), !.rstatus = code])
    /\ Local(p)

\* The script is over: ssh exits with the status of its last command.
RemoteFinish(p) ==
    /\ st[p].pc = "remote" /\ st[p].rscript = <<>>
    /\ \E out \in StdoutTexts :
       \E e \in IF st[p].rstatus = 0 THEN {<<>>} ELSE StderrTexts :
         Set(p, [st[p] EXCEPT !.returncode = st[p].rstatus, !.stdout = out,
                              !.stderr = e, !.pc = "exited"])
    /\ Local(p)

(* ------------------------------ the way back ------------------------------ *)

\* return result.stdout
ReturnStdout(p) ==
    /\ st[p].pc = "exited" /\ st[p].returncode = 0
    /\ Set(p, [st[p] EXCEPT !.result = st[p].stdout, !.pc = "print"])
    /\ Local(p)

\* An except branch that runs the command again.
ReturnErrorRetry(p) ==
    /\ st[p].pc = "exited" /\ st[p].returncode # 0
    /\ Set(p, [st[p] EXCEPT !.pc = "subprocess"])
    /\ Local(p)

\* check=True raises CalledProcessError; the except branch returns the text.
ReturnError(p) ==
    /\ st[p].pc = "exited" /\ st[p].returncode # 0
    /\ Set(p, [st[p] EXCEPT !.result = error_result(st[p].stderr), !.pc = "print"])
    /\ Local(p)

\* print(result)
PrintResult(p) ==
    /\ st[p].pc = "print"
    /\ Set(p, [st[p] EXCEPT !.printed = Append(@, st[p].result), !.pc = "done"])
    /\ Local(p)

(* ----------------------------- one invocation ----------------------------- *)

Next ==
    \/ \E p \in procs : ResolveHost(p)
    \/ \E p \in procs : get_info_all(p)
    \/ \E p \in procs : get_info_credentialstore(p)
    \/ \E p \in procs : CredstoreRequired(p)
    \/ \E p \in procs : get_lag_info(p)
    \/ \E p \in procs : run_ggsci_command(p)
    \/ \E p \in procs : run_ssh_command(p)
    \/ \E p \in procs : subprocess_run(p)
    \/ \E p \in procs : SshFail(p)
    \/ \E p \in procs : SshConnect(p)
    \/ \E p \in procs : RemoteSkip(p)
    \/ \E p \in procs : RemoteHeredoc(p)
    \/ \E p \in procs : RemoteConsole(p)
    \/ \E p \in procs : RemoteRm(p)
    \/ \E p \in procs : RemotePipe(p)
    \/ \E p \in procs : RemoteExit(p)
    \/ \E p \in procs : RemoteOther(p)
    \/ \E p \in procs : RemoteFinish(p)
    \/ \E p \in procs : ReturnStdout(p)
    \/ \E p \in procs : ReturnError(p)
    \/ \E p \in procs : PrintResult(p)

Spec == Init /\ [][Next]_vars

(* ------------- two show-lag invocations against the same host ------------- *)

\* Two processes started with --command lag and an alias each, for the same
\* --host, with no address set in the environment.
RaceAliases == {PROD_CRED, MIXED_CRED}

InitRace ==
    /\ procs = {1, 2}
    /\ \E h \in Hosts : \E c \in [procs -> RaceAliases] :
         args = [p \in procs |-> [host |-> h, command |-> "lag", credstore |-> c[p]]]
    /\ environ = [p \in procs |-> [GG1_HOST |-> None, GG2_HOST |-> None]]
    /\ st = [p \in procs |-> Start]
    /\ fs = [a \in Addresses |-> {}]

NextRace ==
    \/ \E p \in procs : ResolveHost(p)
    \/ \E p \in procs : get_lag_info(p)
    \/ \E p \in procs : run_ssh_command(p)
    \/ \E p \in procs : subprocess_run(p)
    \/ \E p \in procs : SshFail(p)
    \/ \E p \in procs : SshConnect(p)
    \/ \E p \in procs : RemoteSkip(p)
    \/ \E p \in procs : RemoteHeredoc(p)
    \/ \E p \in procs : RemoteConsole(p)
    \/ \E p \in procs : RemoteRm(p)
    \/ \E p \in procs : RemoteFinish(p)
    \/ \E p \in procs : ReturnStdout(p)
    \/ \E p \in procs : ReturnError(p)
    \/ \E p \in procs : PrintResult(p)

SpecRace == InitRace /\ [][NextRace]_vars

(* ------------------- run_ggsci_command called on its own ------------------- *)

\* run_ggsci_command(host, command) for any host address, for the two
\* commands main() passes, a command with quoted text, and any command text
\* of up to MaxCommandLen characters, up to the call of subprocess.run.
InitGgsci ==
    /\ procs = {1}
    /\ args \in [procs -> [host : Hosts, command : {"info"}, credstore : {None}]]
    /\ environ \in [procs -> Environs]
    /\ \E text \in CommandTexts \cup {INFO_ALL, INFO_CREDENTIALSTORE, INFO_REPORT_DETAIL} :
         st = [p \in procs |->
                 [Start EXCEPT !.hostname = resolve_host(args[p].host, environ[p]),
                               !.command = text, !.pc = "run_ggsci_command"]]
    /\ fs = [a \in Addresses |-> {}]

NextGgsci ==
    \/ \E p \in procs : run_ggsci_command(p)
    \/ \E p \in procs : run_ssh_command(p)

SpecGgsci == InitGgsci /\ [][NextGgsci]_vars

(* ================================ claims ================================ *)

\* The texts the claims quote, written out.
HEREDOC_LINE ==
    <<"c","a","t"," ",">"," ","/","t","m","p","/","g","g","_","c","o","m","m","a","n",
      "d","s",".","t","x","t"," ","<","<"," ","'","E","O","F","'">>

CONSOLE_LINE ==
    <<"g","g","s","c","i"," ","<"," ","/","t","m","p","/","g","g","_","c","o","m","m",
      "a","n","d","s",".","t","x","t">>

DELETE_LINE ==
    <<"r","m"," ","-","f"," ","/","t","m","p","/","g","g","_","c","o","m","m","a","n",
      "d","s",".","t","x","t">>

LAG_LINE ==
    <<"l","a","g">>

EXIT_LINE ==
    <<"e","x","i","t">>

EOF_LINE ==
    <<"E","O","F">>

LOGIN_PROD_CRED ==
    <<"d","b","l","o","g","i","n"," ","u","s","e","r","i","d","a","l","i","a","s"," ",
      "P","R","O","D","_","C","R","E","D">>

LagRun(p) == args[p].command = "lag" /\ args[p].credstore \notin {None, <<>>}
NoAlias(p) == args[p].command = "lag" /\ args[p].credstore \in {None, <<>>}
Built(p) == st[p].script # <<>>
Finished(p) == st[p].pc \in {"exited", "print", "done"}

\* The login command for an alias, and the file the four commands make.
LoginFor(alias) == LOGIN_PREFIX \o alias
CommandFile(alias) == <<LoginFor(alias), LAG_LINE, INFO_ALL, EXIT_LINE>>

\* The address --host selects: the variable of the environment if it is set,
\* the literal default otherwise.
SelectedAddress(p) ==
    IF args[p].host = "gg1"
    THEN (IF environ[p].GG1_HOST = None THEN GG1_DEFAULT ELSE environ[p].GG1_HOST)
    ELSE (IF environ[p].GG2_HOST = None THEN GG2_DEFAULT ELSE environ[p].GG2_HOST)

\* The positions of a line in a script.
Places(lines, line) == {i \in 1..Len(lines) : lines[i] = line}
First(S) == CHOOSE i \in S : \A j \in S : i <= j
Last(S) == CHOOSE i \in S : \A j \in S : j <= i

(* C1: a run with --command lag and no alias (--credstore absent or empty)   *)
(* never calls run_ssh_command, starts no subprocess and opens no session,   *)
(* and what it has printed when it is over is the fixed message alone.       *)
C1_NoSessionWithoutCredstore ==
    \A p \in procs :
      NoAlias(p) =>
        /\ st[p].calls = 0 /\ st[p].starts = 0 /\ st[p].sessions = <<>>
        /\ st[p].pc \in {"main", "dispatch", "done"}
        /\ st[p].pc = "done" => st[p].printed = <<CREDSTORE_REQUIRED>>
        /\ st[p].pc # "done" => st[p].printed = <<>>

C1_Witness ==
    \E p \in procs :
      /\ NoAlias(p) /\ args[p].credstore = <<>>
      /\ st[p].pc = "done" /\ st[p].printed = <<CREDSTORE_REQUIRED>>

(* C2: whenever the subprocess has exited nonzero with standard error s, the *)
(* value run_ssh_command returns is the fixed prefix followed by s, and      *)
(* main() prints exactly that string and ends normally, for every intent.   *)
C2_ErrorIsReturnedAndPrinted ==
    \A p \in procs :
      st[p].starts > 0 /\ st[p].returncode # 0 =>
        /\ st[p].pc \in {"exited", "print", "done"}
        /\ st[p].pc \in {"print", "done"} => st[p].result = ERROR_PREFIX \o st[p].stderr
        /\ st[p].pc = "done" => st[p].printed = <<ERROR_PREFIX \o st[p].stderr>>

C2_Witness ==
    \E p \in procs :
      /\ args[p].command = "credstore"
      /\ st[p].returncode # 0 /\ st[p].stderr = AUTH_FAILED
      /\ st[p].pc = "done" /\ Contains(st[p].printed[1], AUTH_FAILED)

(* C3: run_ssh_command is called at most once per run and starts at most one *)
(* subprocess per call (no retry after a failure); a run with valid          *)
(* arguments has, when it is over, opened exactly one session, to the        *)
(* address of the selected host, and printed exactly one string after it.    *)
C3_SingleAttempt ==
    \A p \in procs :
      /\ st[p].calls <= 1 /\ st[p].starts <= st[p].calls
      /\ Len(st[p].sessions) <= st[p].starts
      /\ Len(st[p].printed) <= 1
      /\ ~NoAlias(p) /\ st[p].printed # <<>> =>
           /\ st[p].calls = 1 /\ st[p].starts = 1
           /\ st[p].sessions = <<SelectedAddress(p)>>
           /\ st[p].pc = "done"

C3_Witness ==
    \E p \in procs :
      /\ args[p].host = "gg2" /\ environ[p].GG2_HOST = GG2_OVERRIDE
      /\ st[p].pc = "done" /\ st[p].returncode = 255
      /\ st[p].sessions = <<GG2_OVERRIDE>> /\ Len(st[p].printed) = 1

(* C4: for every alias the script of get_lag_info has, in this order, the    *)
(* login line for the alias, lag, info all and exit, then the console run on *)
(* the command file, then the deletion of that file; and on the host all     *)
(* four commands are written into the file, login first, before the console  *)
(* reads it.                                                                 *)
C4_ScriptOrder ==
    \A p \in procs :
      LagRun(p) /\ Built(p) =>
        LET lines == Lines(st[p].script)
            login == Lines(LoginFor(args[p].credstore))
            commands == login \o <<LAG_LINE, INFO_ALL, EXIT_LINE>>
            n == Len(commands)
        IN /\ \E i \in 1..(Len(lines) - n) :
                /\ SubSeq(lines, i, i + n - 1) = commands
                /\ \E j \in Places(lines, CONSOLE_LINE) :
                   \E k \in Places(lines, DELETE_LINE) : i + n - 1 < j /\ j < k
           /\ \A f \in FileNamed(Host(p), TEMP_FILE) : f[2] = commands
           /\ \A c \in 1..Len(st[p].console) : st[p].console[c].input = commands

(* C5: once the show-lag script is over on the host and the console has run  *)
(* and exited, with whatever status, the command file is gone.               *)
C5_FileDeletedAfterConsole ==
    \A p \in procs :
      LagRun(p) /\ Finished(p) /\ st[p].console # <<>> =>
        FileNamed(Host(p), TEMP_FILE) = {}

C5_Witness ==
    \E p \in procs :
      /\ LagRun(p) /\ st[p].pc = "done"
      /\ st[p].console # <<>> /\ st[p].console[1].code # 0
      /\ FileNamed(Host(p), TEMP_FILE) = {}

(* C6: two show-lag runs against one host share the one file                 *)
(* /tmp/gg_commands.txt: the host never holds another file or a second one,  *)
(* and what a console reads is that file as the last run to write it left    *)
(* it, whether that was its own run or the other one.  The witness is the    *)
(* interleaving in which a console logs in with the other run's alias.       *)
C6_SharedCommandFile ==
    /\ \A a \in Addresses :
         Cardinality(fs[a]) <= 1 /\ \A f \in fs[a] : f[1] = TEMP_FILE
    /\ \A p \in procs : \A n \in 1..Len(st[p].console) :
         \E q \in procs :
           /\ Host(q) = Host(p) /\ st[q].pc \notin {"main", "dispatch", "run_ssh_command"}
           /\ st[p].console[n].input = CommandFile(args[q].credstore)

C6_Witness ==
    \E p \in procs : \E q \in procs \ {p} :
      /\ Host(p) = Host(q) /\ args[p].credstore # args[q].credstore
      /\ st[p].console # <<>>
      /\ st[p].console[1].input[1] = LoginFor(args[q].credstore)

(* C7: for a command text with an embedded double quote, the command built   *)
(* by run_ggsci_command has the backslash-escaped quote, and in the ssh      *)
(* command line the whole remote command is one quoted argument: the local   *)
(* shell takes the text between the outer single quotes as one word,         *)
(* unchanged.                                                                *)
C7_SingleQuotedArgument ==
    \A p \in procs :
      st[p].pc = "subprocess" /\ Contains(st[p].command, <<DQ>>) =>
        /\ Contains(st[p].script, <<BS, DQ>>)
        /\ LET w == ShWords(st[p].cmdline) IN
             /\ w.closed /\ Len(w.words) = 4
             /\ w.words[4] = Drop(SSH_SUDO, 2) \o st[p].script \o <<DQ>>

(* C8: for every alias --credstore can carry, no line of the embedded        *)
(* command sequence (the lines between the heredoc line and the terminator   *)
(* that ends the template) is the terminator EOF.                            *)
C8_TerminatorNotInCommands ==
    \A p \in procs :
      LagRun(p) /\ Built(p) =>
        LET lines == Lines(st[p].script)
            start == First(Places(lines, HEREDOC_LINE))
            stop == Last(Places(lines, EOF_LINE))
        IN \A i \in (start + 1)..(stop - 1) : lines[i] # EOF_LINE

(* C9: for any single-line command text, what run_ggsci_command hands to     *)
(* run_ssh_command is one line, echo '<text>' | ggsci, where <text> is the   *)
(* command with a backslash put before each double quote: every double       *)
(* quote of it is preceded by a backslash, and taking those backslashes out  *)
(* gives the command back.                                                   *)
C9_QuotesEscaped ==
    \A p \in procs :
      st[p].pc \in {"run_ssh_command", "subprocess"} =>
        LET s == st[p].script
            text == SubSeq(s, Len(ECHO_PREFIX) + 1, Len(s) - Len(ECHO_SUFFIX))
            quotes == {i \in 1..Len(text) : text[i] = DQ}
            added == {i - 1 : i \in quotes}
            kept == {i \in 1..Len(text) : i \notin added}
        IN /\ StartsWith(s, ECHO_PREFIX) /\ EndsWith(s, ECHO_SUFFIX)
           /\ Len(s) >= Len(ECHO_PREFIX) + Len(ECHO_SUFFIX)
           /\ \A i \in 1..Len(s) : s[i] # NL
           /\ \A i \in quotes : i > 1 /\ text[i - 1] = BS
           /\ Len(st[p].command) = Cardinality(kept)
           /\ \A i \in kept :
                st[p].command[Cardinality({j \in kept : j <= i})] = text[i]

C9_Witness ==
    \E p \in procs :
      /\ st[p].pc = "subprocess"
      /\ st[p].command = <<"a", DQ, "a">>
      /\ Contains(st[p].script, <<"a", BS, DQ, "a">>)

(* C10: the heredoc of the script holds, right after the heredoc line, the   *)
(* line(s) dblogin useridalias <alias> with the alias exactly as --credstore *)
(* gave it, followed at once by the lag line.                                *)
C10_AliasVerbatim ==
    \A p \in procs :
      LagRun(p) /\ Built(p) =>
        LET lines == Lines(st[p].script)
            login == Lines(LOGIN_PREFIX \o args[p].credstore)
            start == First(Places(lines, HEREDOC_LINE))
        IN /\ Places(lines, HEREDOC_LINE) # {}
           /\ SubSeq(lines, start + 1, start + Len(login)) = login
           /\ lines[start + Len(login) + 1] = LAG_LINE

C10_Witness ==
    \E p \in procs :
      /\ args[p].credstore = PROD_CRED /\ st[p].pc = "done"
      /\ LOGIN_PROD_CRED \in {Lines(st[p].script)[i] : i \in 1..Len(Lines(st[p].script))}
      /\ st[p].console # <<>> /\ st[p].console[1].input[1] = LOGIN_PROD_CRED
====
